---------------------------- MODULE Spec2Model ----------------------------
(***************************************************************************)
(* A model of db_app.py: the weather feed normaliser (find_key,            *)
(* fetch_and_save_weather), the SQLite forecasts table (init_db,           *)
(* save_to_db, get_db_data), the locality expansion over CITY_MAPPING and  *)
(* the two pure classifiers (get_weather_icon, get_temp_color).            *)
(*                                                                         *)
(* Strings of the source that are not ASCII are written in transliteration *)
(* (the region "North" is the source's northern region, and so on).        *)
(***************************************************************************)
EXTENDS Integers, Sequences, FiniteSets, TLC

VARIABLES
    node, key, result,          \* find_key: its arguments and what it returned
    desc, icon,                 \* get_weather_icon: its argument and result
    max_temp, color,            \* get_temp_color: its argument and result
    forecasts, sqlite_sequence, \* the forecasts table and its AUTOINCREMENT counter
    persisted,                  \* history: every item save_to_db has inserted, in order
    response,                   \* what requests.get met in the last refresh
    api_data, reported,         \* fetch_and_save_weather: its return value, st.error shown
    db_before,                  \* history: the table as the last refresh found it
    selected_date, map_rows,    \* the map tab: the chosen date and the expanded rows
    cycles                      \* history: refreshes and direct saves done so far

vars == <<node, key, result, desc, icon, max_temp, color, forecasts,
          sqlite_sequence, persisted, response, api_data, reported, db_before,
          selected_date, map_rows, cycles>>

-----------------------------------------------------------------------------
(* Parsed JSON (what response.json() returns), as tagged records.  A dict  *)
(* keeps its entries in insertion order, as Python's dict does.  JNull is  *)
(* Python's None: a JSON null and an absent result are the same value.     *)

JNull == [t |-> "null"]
JInt(n) == [t |-> "int", n |-> n]
JStr(s) == [t |-> "str", s |-> s]
JList(xs) == [t |-> "list", items |-> xs]
JDict(kv) == [t |-> "dict", kv |-> kv]

\* isinstance(node, list), isinstance(node, dict), x is None
IsList(x) == x.t = "list"
IsDict(x) == x.t = "dict"
IsNone(x) == x.t = "null"

\* key in node (node a dict)
HasKey(d, k) == \E i \in 1..Len(d.kv) : d.kv[i].k = k

\* node[key] (node a dict holding key)
Lookup(d, k) == d.kv[CHOOSE i \in 1..Len(d.kv) : d.kv[i].k = k].v

\* node.get(key, default) (node a dict)
Get(d, k, default) == IF HasKey(d, k) THEN Lookup(d, k) ELSE default

-----------------------------------------------------------------------------
(* find_key                                                                *)

RECURSIVE find_key(_, _)
RECURSIVE find_in_list(_, _, _)
RECURSIVE find_in_values(_, _, _)

\* A plausible slip: the values of a mapping are searched before its own keys.
find_key_values_first(n, k) ==
    IF IsList(n) THEN find_in_list(n.items, k, 1)
    ELSE IF IsDict(n) THEN
        LET deep == find_in_values(n.kv, k, 1)
        IN  IF ~IsNone(deep) THEN deep
            ELSE IF HasKey(n, k) THEN Lookup(n, k) ELSE JNull
    ELSE JNull

find_key(n, k) ==
    IF IsList(n) THEN find_in_list(n.items, k, 1)
    ELSE IF IsDict(n) THEN
        IF HasKey(n, k) THEN Lookup(n, k)
        ELSE find_in_values(n.kv, k, 1)
    ELSE JNull

\* for i in node: result = find_key(i, key); if result is not None: return result
find_in_list(items, k, i) ==
    IF i > Len(items) THEN JNull
    ELSE LET r == find_key(items[i], k)
         IN  IF ~IsNone(r) THEN r ELSE find_in_list(items, k, i + 1)

\* for k, v in node.items(): result = find_key(v, key); if result is not None: ...
find_in_values(kv, k, i) ==
    IF i > Len(kv) THEN JNull
    ELSE LET r == find_key(kv[i].v, k)
         IN  IF ~IsNone(r) THEN r ELSE find_in_values(kv, k, i + 1)

-----------------------------------------------------------------------------
(* Bounded nested documents for find_key.                                  *)

MaxItems == 2

Keys == {"location", "other"}
Leaves == {JNull, JInt(1)}

SeqsUpTo(S, n) == UNION {[1..m -> S] : m \in 0..n}

\* The orders in which a dict can hold some of the keys, each at most once.
KeyOrders == {ks \in SeqsUpTo(Keys, Cardinality(Keys)) :
                 \A i, j \in 1..Len(ks) : i # j => ks[i] # ks[j]}

DictsOver(S) ==
    UNION {{JDict([i \in 1..Len(ks) |-> [k |-> ks[i], v |-> vs[i]]]) :
               vs \in [1..Len(ks) -> S]} : ks \in KeyOrders}

ListsOver(S) == {JList(xs) : xs \in SeqsUpTo(S, MaxItems)}

Level1 == Leaves \cup ListsOver(Leaves) \cup DictsOver(Leaves)
Level2 == Level1 \cup ListsOver(Level1) \cup DictsOver(Level1)

Pending == [t |-> "pending"]

-----------------------------------------------------------------------------
findVars == <<node, key, result>>
iconVars == <<desc, icon>>
colorVars == <<max_temp, color>>
pipeVars == <<forecasts, sqlite_sequence, persisted, response, api_data,
              reported, db_before, selected_date, map_rows, cycles>>

\* The parts of the state a specification does not use stay as they start.
IdleFind == node = JNull /\ key = "" /\ result = Pending
IdleIcon == desc = JNull /\ icon = ""
IdleColor == max_temp = 0 /\ color = <<>>
IdlePipe == /\ forecasts = {} /\ sqlite_sequence = 0 /\ persisted = <<>>
            /\ response = Pending /\ api_data = <<>> /\ reported = FALSE
            /\ db_before = {} /\ selected_date = JNull /\ map_rows = <<>>
            /\ cycles = 0

InitFindKey ==
    /\ node \in Level2
    /\ key \in Keys
    /\ result = Pending
    /\ IdleIcon /\ IdleColor /\ IdlePipe

CallFindKey ==
    /\ result = Pending
    /\ result' = find_key(node, key)
    /\ UNCHANGED <<node, key, iconVars, colorVars, pipeVars>>

NextFindKey == CallFindKey

SpecFindKey == InitFindKey /\ [][NextFindKey]_vars

-----------------------------------------------------------------------------
(* Claim C9: what find_key returns, against the order the claim describes. *)

RECURSIVE Matches(_, _)
RECURSIVE MatchesIn(_, _, _)
RECURSIVE Outermost(_, _)
RECURSIVE OutermostIn(_, _, _)

\* The values of every occurrence of k in n, in the claim's depth-first order:
\* list elements in order; in a mapping its own entry first, then its values.
Matches(n, k) ==
    IF IsList(n) THEN MatchesIn(n.items, k, 1)
    ELSE IF IsDict(n) THEN
        (IF HasKey(n, k) THEN <<Lookup(n, k)>> ELSE <<>>)
            \o MatchesIn([i \in 1..Len(n.kv) |-> n.kv[i].v], k, 1)
    ELSE <<>>

MatchesIn(xs, k, i) ==
    IF i > Len(xs) THEN <<>> ELSE Matches(xs[i], k) \o MatchesIn(xs, k, i + 1)

\* The same, leaving out what lies inside a mapping that itself holds k.
Outermost(n, k) ==
    IF IsList(n) THEN OutermostIn(n.items, k, 1)
    ELSE IF IsDict(n) THEN
        IF HasKey(n, k) THEN <<Lookup(n, k)>>
        ELSE OutermostIn([i \in 1..Len(n.kv) |-> n.kv[i].v], k, 1)
    ELSE <<>>

OutermostIn(xs, k, i) ==
    IF i > Len(xs) THEN <<>> ELSE Outermost(xs[i], k) \o OutermostIn(xs, k, i + 1)

FirstNonNull(xs) ==
    IF \E i \in 1..Len(xs) : ~IsNone(xs[i])
    THEN xs[CHOOSE i \in 1..Len(xs) :
                ~IsNone(xs[i]) /\ \A j \in 1..(i - 1) : IsNone(xs[j])]
    ELSE JNull

\* C9 as stated: find_key returns the value of the first occurrence of the key
\* in depth-first order, and returns absent (None) only if the key occurs in
\* no mapping of the document.
C9_FirstMatchOrAbsent ==
    result # Pending =>
        LET m == Matches(node, key)
        IN  /\ m # <<>> => result = m[1]
            /\ IsNone(result) => m = <<>>

\* C9 amended: find_key returns the first value that is not null among the
\* occurrences of the key that do not lie inside a mapping already holding the
\* key, in depth-first order, and absent when there is none; so whenever no
\* occurrence of the key holds null, it returns the first occurrence and is
\* absent only if the key occurs nowhere.
C9_FirstNonNullOutermost ==
    result # Pending =>
        LET m == Matches(node, key)
        IN  /\ result = FirstNonNull(Outermost(node, key))
            /\ (\A i \in 1..Len(m) : ~IsNone(m[i])) =>
                   /\ m # <<>> => result = m[1]
                   /\ IsNone(result) <=> m = <<>>

\* A null occurrence is skipped and a later occurrence is what comes back.
C9_Witness ==
    /\ result # Pending
    /\ Len(Matches(node, key)) >= 2
    /\ IsNone(Matches(node, key)[1])
    /\ ~IsNone(result)

-----------------------------------------------------------------------------
(* get_weather_icon.  A condition text is a sequence of characters; the     *)
(* six marker characters of the source are written by their readings:      *)
(* "lei" thunder, "yu" rain, "xue" snow, "qing" clear, "yun" cloud,        *)
(* "yin" overcast.  " " is the blank and "x" any other character.          *)

PyStr(cs) == [t |-> "chars", chars |-> cs]
IsStr(x) == x.t = "chars"

\* desc.replace(" ", "")
RemoveBlanks(cs) == SelectSeq(cs, LAMBDA c : c # " ")

\* "c" in desc_clean
In(c, cs) == \E i \in 1..Len(cs) : cs[i] = c

\* A plausible slip: the rain test placed before the thunder test.
get_weather_icon_rain_first(d) ==
    IF ~IsStr(d) THEN "unknown"
    ELSE LET desc_clean == RemoveBlanks(d.chars)
         IN  IF In("yu", desc_clean) THEN "rain"
             ELSE IF In("lei", desc_clean) THEN "storm"
             ELSE IF In("xue", desc_clean) THEN "snow"
             ELSE IF In("qing", desc_clean)
                     /\ (In("yun", desc_clean) \/ In("yin", desc_clean))
                  THEN "partly_cloudy"
             ELSE IF In("qing", desc_clean) THEN "sunny"
             ELSE IF In("yin", desc_clean) THEN "cloudy"
             ELSE IF In("yun", desc_clean) THEN "mostly_cloudy"
             ELSE "thermometer"

get_weather_icon(d) ==
    IF ~IsStr(d) THEN "unknown"
    ELSE LET desc_clean == RemoveBlanks(d.chars)
         IN  IF In("lei", desc_clean) THEN "storm"
             ELSE IF In("yu", desc_clean) THEN "rain"
             ELSE IF In("xue", desc_clean) THEN "snow"
             ELSE IF In("qing", desc_clean)
                     /\ (In("yun", desc_clean) \/ In("yin", desc_clean))
                  THEN "partly_cloudy"
             ELSE IF In("qing", desc_clean) THEN "sunny"
             ELSE IF In("yin", desc_clean) THEN "cloudy"
             ELSE IF In("yun", desc_clean) THEN "mostly_cloudy"
             ELSE "thermometer"

MaxDescLen == 3

Alphabet == {"lei", "yu", "xue", "qing", "yun", "yin", " ", "x"}
Descs == {PyStr(cs) : cs \in SeqsUpTo(Alphabet, MaxDescLen)} \cup {JNull, JInt(1)}

InitIcon ==
    /\ desc \in Descs
    /\ icon = ""
    /\ IdleFind /\ IdleColor /\ IdlePipe

CallIcon ==
    /\ icon = ""
    /\ icon' = get_weather_icon(desc)
    /\ UNCHANGED <<desc, findVars, colorVars, pipeVars>>

NextIcon == CallIcon

SpecIcon == InitIcon /\ [][NextIcon]_vars

\* The claim's priority list: each entry is the set of marker sets one of which
\* the text must contain in full, and the symbol it then gets.
Priority ==
    << [any |-> {{"lei"}}, symbol |-> "storm"],
       [any |-> {{"yu"}}, symbol |-> "rain"],
       [any |-> {{"xue"}}, symbol |-> "snow"],
       [any |-> {{"qing", "yun"}, {"qing", "yin"}}, symbol |-> "partly_cloudy"],
       [any |-> {{"qing"}}, symbol |-> "sunny"],
       [any |-> {{"yin"}}, symbol |-> "cloudy"],
       [any |-> {{"yun"}}, symbol |-> "mostly_cloudy"] >>

Holds(rule, cs) == \E ms \in rule.any : ms \subseteq {cs[i] : i \in 1..Len(cs)}

\* C8: the symbol is that of the first entry of the priority list (thunder,
\* rain, snow, clear with cloud or overcast, clear, overcast, cloud) whose
\* markers the text contains, the thermometer when none does, and the unknown
\* symbol for an input that is not a string.
C8_IconByPriority ==
    icon # "" =>
        IF ~IsStr(desc) THEN icon = "unknown"
        ELSE /\ \A i \in 1..Len(Priority) :
                    (Holds(Priority[i], desc.chars)
                        /\ \A j \in 1..(i - 1) : ~Holds(Priority[j], desc.chars))
                    => icon = Priority[i].symbol
             /\ (\A i \in 1..Len(Priority) : ~Holds(Priority[i], desc.chars))
                    => icon = "thermometer"

\* A text with both the thunder and the rain marker got the storm symbol.
C8_Witness ==
    /\ IsStr(desc)
    /\ In("lei", desc.chars) /\ In("yu", desc.chars)
    /\ icon = "storm"

-----------------------------------------------------------------------------
(* get_temp_color                                                          *)

HOT == <<255, 87, 51>>
COLD == <<51, 193, 255>>
MILD == <<117, 255, 51>>

\* A plausible slip: strict comparisons at the two boundaries.
get_temp_color_strict(t) ==
    IF t > 30 THEN HOT
    ELSE IF t < 20 THEN COLD
    ELSE MILD

get_temp_color(t) ==
    IF t >= 30 THEN HOT
    ELSE IF t <= 20 THEN COLD
    ELSE MILD

MaxAbsTemp == 60

InitColor ==
    /\ max_temp \in (-MaxAbsTemp)..MaxAbsTemp
    /\ color = <<>>
    /\ IdleFind /\ IdleIcon /\ IdlePipe

CallColor ==
    /\ color = <<>>
    /\ color' = get_temp_color(max_temp)
    /\ UNCHANGED <<max_temp, findVars, iconVars, pipeVars>>

NextColor == CallColor

SpecColor == InitColor /\ [][NextColor]_vars

-----------------------------------------------------------------------------
(* Python values met by fetch_and_save_weather.  A string whose characters *)
(* the code reads (a temperature handed to int()) is a PyStr; every other  *)
(* string is a JStr token, and the tokens of this model are words, never   *)
(* numerals.                                                               *)

EmptyDict == JDict(<<>>)
EmptyList == JList(<<>>)

\* not x
Falsy(x) ==
    \/ x.t = "null"
    \/ x.t = "int" /\ x.n = 0
    \/ x.t = "str" /\ x.s = ""
    \/ x.t = "chars" /\ x.chars = <<>>
    \/ x.t = "list" /\ x.items = <<>>
    \/ x.t = "dict" /\ x.kv = <<>>

Digits == <<"0", "1", "2", "3", "4", "5", "6", "7", "8", "9">>
IsDigit(c) == \E d \in 1..Len(Digits) : Digits[d] = c
DigitValue(c) == (CHOOSE d \in 1..Len(Digits) : Digits[d] = c) - 1

RECURSIVE StripLeft(_)
StripLeft(cs) == IF cs # <<>> /\ Head(cs) = " " THEN StripLeft(Tail(cs)) ELSE cs

RECURSIVE StripRight(_)
StripRight(cs) ==
    IF cs # <<>> /\ cs[Len(cs)] = " "
    THEN StripRight(SubSeq(cs, 1, Len(cs) - 1))
    ELSE cs

RECURSIVE DecimalValue(_)
DecimalValue(cs) ==
    IF cs = <<>> THEN 0
    ELSE 10 * DecimalValue(SubSeq(cs, 1, Len(cs) - 1)) + DigitValue(cs[Len(cs)])

Ok(v) == [exc |-> FALSE, val |-> v]
Raised == [exc |-> TRUE]

\* int(text): blanks around are dropped, one sign is allowed, the rest must be
\* digits and at least one; anything else raises ValueError.
ParseInt(cs) ==
    LET body == StripRight(StripLeft(cs))
        signed == body # <<>> /\ Head(body) \in {"-", "+"}
        digits == IF signed THEN Tail(body) ELSE body
    IN  IF digits = <<>> \/ \E i \in 1..Len(digits) : ~IsDigit(digits[i])
        THEN Raised
        ELSE Ok(IF signed /\ Head(body) = "-"
                THEN 0 - DecimalValue(digits) ELSE DecimalValue(digits))

\* A plausible variant: the parse the spec describes, 0 when it fails.
PyInt_default_zero(x) ==
    IF x.t = "int" THEN Ok(x.n)
    ELSE IF x.t = "chars" /\ ~ParseInt(x.chars).exc THEN ParseInt(x.chars)
    ELSE Ok(0)

\* int(x): an int as it is, a string parsed (ValueError), anything else TypeError
\* (a float, which int() would truncate, is in none of the model's documents)
PyInt(x) ==
    IF x.t = "int" THEN Ok(x.n)
    ELSE IF x.t = "chars" THEN ParseInt(x.chars)
    ELSE Raised

\* len(x) is defined (list, dict, str)
Sized(x) == x.t \in {"list", "dict", "chars", "str"}
PyLen(x) ==
    IF x.t = "list" THEN Len(x.items)
    ELSE IF x.t = "dict" THEN Len(x.kv)
    ELSE IF x.t = "chars" THEN Len(x.chars)
    ELSE IF x.s = "" THEN 0 ELSE 1

Min3(a, b, c) ==
    IF a <= b /\ a <= c THEN a ELSE IF b <= c THEN b ELSE c

\* x.get('daily', []) of weather_data.get(name, {}): raises when the element is no dict
Daily(weather_data, name) ==
    LET element == Get(weather_data, name, EmptyDict)
    IN  IF IsDict(element) THEN Ok(Get(element, "daily", EmptyList)) ELSE Raised

\* One pass of the inner loop (lines 175-181): the record of day i.
DayRecord(loc_name, max_t_list, min_t_list, wx_list, i) ==
    IF ~(IsList(max_t_list) /\ IsList(min_t_list) /\ IsList(wx_list)) THEN Raised
    ELSE LET mx == max_t_list.items[i]
             mn == min_t_list.items[i]
             wx == wx_list.items[i]
         IN  IF ~(IsDict(mx) /\ IsDict(mn) /\ IsDict(wx)) THEN Raised
             ELSE LET lo == PyInt(Get(mn, "temperature", JInt(0)))
                      hi == PyInt(Get(mx, "temperature", JInt(0)))
                  IN  IF lo.exc \/ hi.exc THEN Raised
                      ELSE Ok([region |-> loc_name,
                               forecast_date |-> Get(mx, "dataDate", JStr("N/A")),
                               min_temp |-> lo.val,
                               max_temp |-> hi.val,
                               weather |-> Get(wx, "weather", JStr("N/A"))])

\* One pass of the outer loop (lines 162-181): the records of one location entry.
LocRecords(loc) ==
    IF ~IsDict(loc) THEN Raised
    ELSE
    LET loc_name == Get(loc, "locationName", JStr("Unknown"))
        first == Get(loc, "weatherElements", EmptyDict)
        weather_data == IF Falsy(first) THEN Get(loc, "weatherElement", EmptyDict)
                        ELSE first
    IN  IF ~IsDict(weather_data) THEN Raised
        ELSE
        LET max_t_list == Daily(weather_data, "MaxT")
            min_t_list == Daily(weather_data, "MinT")
            wx_list == Daily(weather_data, "Wx")
        IN  IF max_t_list.exc \/ min_t_list.exc \/ wx_list.exc THEN Raised
            ELSE IF ~(Sized(max_t_list.val) /\ Sized(min_t_list.val)
                        /\ Sized(wx_list.val)) THEN Raised
            ELSE
            LET days_count == Min3(PyLen(max_t_list.val), PyLen(min_t_list.val),
                                   PyLen(wx_list.val))
                day(i) == DayRecord(loc_name, max_t_list.val, min_t_list.val,
                                    wx_list.val, i)
            IN  IF \E i \in 1..days_count : day(i).exc THEN Raised
                ELSE Ok([i \in 1..days_count |-> day(i).val])

\* The loop over locations (lines 160-181): parsed_data, or an exception.
RECURSIVE ParseLocations(_, _)
ParseLocations(locs, i) ==
    IF i > Len(locs) THEN Ok(<<>>)
    ELSE LET here == LocRecords(locs[i])
             rest == ParseLocations(locs, i + 1)
         IN  IF here.exc \/ rest.exc THEN Raised
             ELSE Ok(here.val \o rest.val)

-----------------------------------------------------------------------------
(* The forecasts table.  A row is what INSERT stores; updated_at, the time *)
(* of the insert, is left out.                                             *)

\* UNIQUE(location, forecast_date): NULLs never conflict
Conflicts(row, item) ==
    /\ ~IsNone(item.region) /\ ~IsNone(item.forecast_date)
    /\ row.location = item.region
    /\ row.forecast_date = item.forecast_date

\* A plausible slip: the constraint without ON CONFLICT REPLACE handling, every
\* insert adding a row.
Insert_keep_old(db, item) ==
    [rows |-> db.rows \cup
                 {[id |-> db.seq + 1, location |-> item.region,
                   forecast_date |-> item.forecast_date,
                   min_temp |-> item.min_temp, max_temp |-> item.max_temp,
                   weather_desc |-> item.weather]},
     seq |-> db.seq + 1]

\* INSERT INTO forecasts ... under ON CONFLICT REPLACE and AUTOINCREMENT
Insert(db, item) ==
    [rows |-> {r \in db.rows : ~Conflicts(r, item)} \cup
                 {[id |-> db.seq + 1, location |-> item.region,
                   forecast_date |-> item.forecast_date,
                   min_temp |-> item.min_temp, max_temp |-> item.max_temp,
                   weather_desc |-> item.weather]},
     seq |-> db.seq + 1]

RECURSIVE InsertAll(_, _, _)
InsertAll(db, data_list, i) ==
    IF i > Len(data_list) THEN db
    ELSE InsertAll(Insert(db, data_list[i]), data_list, i + 1)

\* save_to_db: nothing for an empty list, else every item inserted and committed
save_to_db(db, data_list) ==
    IF data_list = <<>> THEN db ELSE InsertAll(db, data_list, 1)

-----------------------------------------------------------------------------
(* fetch_and_save_weather.  A response is a parsed document, or one of the *)
(* failures of lines 152-154.                                              *)

Failure(kind) == [t |-> "failure", kind |-> kind]
Failures == {Failure("network_error"), Failure("http_error_status"),
             Failure("body_not_json")}
IsFailure(r) == r.t = "failure"

\* A plausible slip: the table emptied before the feed is fetched.
fetch_and_save_weather_clear_first(resp, db) ==
    LET cleared == [rows |-> {}, seq |-> db.seq]
    IN
    IF IsFailure(resp) THEN [ret |-> <<>>, error |-> TRUE, db |-> cleared]
    ELSE
    LET locations == find_key(resp, "location")
    IN  IF Falsy(locations) THEN [ret |-> <<>>, error |-> FALSE, db |-> cleared]
        ELSE IF ~IsList(locations)
             THEN [ret |-> <<>>, error |-> TRUE, db |-> cleared]
        ELSE
        LET parsed_data == ParseLocations(locations.items, 1)
        IN  IF parsed_data.exc THEN [ret |-> <<>>, error |-> TRUE, db |-> cleared]
            ELSE [ret |-> parsed_data.val, error |-> FALSE,
                  db |-> save_to_db(cleared, parsed_data.val)]

\* A plausible slip: no early return when find_key finds nothing.
fetch_and_save_weather_no_guard(resp, db) ==
    IF IsFailure(resp) THEN [ret |-> <<>>, error |-> TRUE, db |-> db]
    ELSE
    LET locations == find_key(resp, "location")
    IN  IF ~IsList(locations) THEN [ret |-> <<>>, error |-> TRUE, db |-> db]
        ELSE
        LET parsed_data == ParseLocations(locations.items, 1)
        IN  IF parsed_data.exc THEN [ret |-> <<>>, error |-> TRUE, db |-> db]
            ELSE [ret |-> parsed_data.val, error |-> FALSE,
                  db |-> save_to_db(db, parsed_data.val)]

\* The return value, whether st.error was shown, and the table afterwards.
fetch_and_save_weather(resp, db) ==
    IF IsFailure(resp) THEN [ret |-> <<>>, error |-> TRUE, db |-> db]
    ELSE
    LET locations == find_key(resp, "location")
    IN  IF Falsy(locations) THEN [ret |-> <<>>, error |-> FALSE, db |-> db]
        ELSE IF ~IsList(locations) THEN [ret |-> <<>>, error |-> TRUE, db |-> db]
        ELSE
        LET parsed_data == ParseLocations(locations.items, 1)
        IN  IF parsed_data.exc THEN [ret |-> <<>>, error |-> TRUE, db |-> db]
            ELSE [ret |-> parsed_data.val, error |-> FALSE,
                  db |-> save_to_db(db, parsed_data.val)]

-----------------------------------------------------------------------------
(* The map tab (lines 239-263).  Coordinates are in 1/10000 of a degree.    *)

CITY_MAPPING ==
    << [city |-> "Keelung", region |-> "North", lat |-> 251276, lon |-> 1217392],
       [city |-> "Taipei", region |-> "North", lat |-> 250330, lon |-> 1215654],
       [city |-> "NewTaipei", region |-> "North", lat |-> 250172, lon |-> 1214625],
       [city |-> "Taoyuan", region |-> "North", lat |-> 249936, lon |-> 1213010],
       [city |-> "HsinchuCity", region |-> "North", lat |-> 248138, lon |-> 1209675],
       [city |-> "HsinchuCounty", region |-> "North", lat |-> 248396, lon |-> 1210107],
       [city |-> "Miaoli", region |-> "North", lat |-> 245602, lon |-> 1208214],
       [city |-> "Taichung", region |-> "Central", lat |-> 241477, lon |-> 1206736],
       [city |-> "Changhua", region |-> "Central", lat |-> 240518, lon |-> 1205161],
       [city |-> "Nantou", region |-> "Central", lat |-> 239610, lon |-> 1209719],
       [city |-> "Yunlin", region |-> "Central", lat |-> 237092, lon |-> 1204313],
       [city |-> "ChiayiCity", region |-> "Central", lat |-> 234801, lon |-> 1204491],
       [city |-> "ChiayiCounty", region |-> "Central", lat |-> 234518, lon |-> 1202555],
       [city |-> "Tainan", region |-> "South", lat |-> 229997, lon |-> 1202270],
       [city |-> "Kaohsiung", region |-> "South", lat |-> 226273, lon |-> 1203014],
       [city |-> "Pingtung", region |-> "South", lat |-> 225519, lon |-> 1205487],
       [city |-> "Yilan", region |-> "NorthEast", lat |-> 247021, lon |-> 1217377],
       [city |-> "Hualien", region |-> "East", lat |-> 239872, lon |-> 1216011],
       [city |-> "Taitung", region |-> "SouthEast", lat |-> 227613, lon |-> 1211445],
       [city |-> "Penghu", region |-> "Penghu", lat |-> 235711, lon |-> 1195793],
       [city |-> "Kinmen", region |-> "Kinmen", lat |-> 244404, lon |-> 1183225],
       [city |-> "Lienchiang", region |-> "Matsu", lat |-> 261505, lon |-> 1199590] >>

\* df_source['forecast_date'].unique().tolist(): in order of first appearance
RECURSIVE available_dates(_)
available_dates(api) ==
    IF api = <<>> THEN <<>>
    ELSE LET before == available_dates(SubSeq(api, 1, Len(api) - 1))
             d == api[Len(api)].forecast_date
         IN  IF \E i \in 1..Len(before) : before[i] = d THEN before
             ELSE Append(before, d)

\* df_source[df_source['forecast_date'] == selected_date]
df_day(api, date) == SelectSeq(api, LAMBDA r : r.forecast_date = date)

\* One pass of the loop of lines 252-263: the rows one table entry adds.
MapRow(day, mapping) ==
    LET region_data == SelectSeq(day, LAMBDA r : r.region = JStr(mapping.region))
    IN  IF region_data # <<>>
        THEN << [region |-> region_data[1].region,
                 forecast_date |-> region_data[1].forecast_date,
                 min_temp |-> region_data[1].min_temp,
                 max_temp |-> region_data[1].max_temp,
                 weather |-> region_data[1].weather,
                 display_name |-> mapping.city,
                 lat |-> mapping.lat,
                 lon |-> mapping.lon,
                 color |-> get_temp_color(region_data[1].max_temp)] >>
        ELSE <<>>

RECURSIVE ExpandFrom(_, _, _)
ExpandFrom(day, table, i) ==
    IF i > Len(table) THEN <<>>
    ELSE MapRow(day, table[i]) \o ExpandFrom(day, table, i + 1)

\* A plausible slip: the last record of the region taken, not the first.
expand_map_rows_last(api, date) ==
    LET day == df_day(api, date)
        reversed == [i \in 1..Len(day) |-> day[Len(day) + 1 - i]]
    IN  ExpandFrom(reversed, CITY_MAPPING, 1)

\* map_rows as line 263 leaves it
expand_map_rows(api, date) == ExpandFrom(df_day(api, date), CITY_MAPPING, 1)

-----------------------------------------------------------------------------
(* Documents of the feed's shape.  A location entry is built from: its     *)
(* name ("" for none), where its weather elements sit, the length of each  *)
(* daily series (-1 for a series that is absent) and one defect of one day.*)

MaxDays == 2

DateNames == <<"2024-01-01", "2024-01-02", "2024-01-03", "2024-01-04">>
MaxTexts == << <<"3", "1">>, <<"2", "5">>, <<"1", "9">>, <<"3", "0">> >>
MinTexts == << <<"2", "2">>, <<"1", "8">>, <<"-", "3">>, <<"2", "0">> >>
WxTexts == <<"sunny", "thunder_showers", "cloudy", "overcast">>

Opt(present, k, v) == IF present THEN <<[k |-> k, v |-> v]>> ELSE <<>>

NoDefect == [kind |-> "none", day |-> 0]
DefectKinds == {"max_not_numeric", "min_not_numeric", "max_empty_text",
                "max_absent", "min_absent", "date_absent", "weather_absent",
                "max_is_int", "max_padded"}
Defects == [kind : DefectKinds, day : 1..MaxDays]

MaxEntry(i, defect) ==
    LET hit == defect.day = i
    IN  JDict(Opt(~(hit /\ defect.kind = "date_absent"), "dataDate",
                  JStr(DateNames[i]))
              \o Opt(~(hit /\ defect.kind = "max_absent"), "temperature",
                     IF hit /\ defect.kind = "max_not_numeric" THEN PyStr(<<"x">>)
                     ELSE IF hit /\ defect.kind = "max_empty_text" THEN PyStr(<<>>)
                     ELSE IF hit /\ defect.kind = "max_is_int" THEN JInt(28)
                     ELSE IF hit /\ defect.kind = "max_padded"
                          THEN PyStr(<<" ", "2", "8">>)
                     ELSE PyStr(MaxTexts[i])))

MinEntry(i, defect) ==
    LET hit == defect.day = i
    IN  JDict(<<[k |-> "dataDate", v |-> JStr(DateNames[i])]>>
              \o Opt(~(hit /\ defect.kind = "min_absent"), "temperature",
                     IF hit /\ defect.kind = "min_not_numeric" THEN PyStr(<<"x">>)
                     ELSE PyStr(MinTexts[i])))

WxEntry(i, defect) ==
    LET hit == defect.day = i
    IN  JDict(<<[k |-> "dataDate", v |-> JStr(DateNames[i])]>>
              \o Opt(~(hit /\ defect.kind = "weather_absent"), "weather",
                     JStr(WxTexts[i])))

Series(entries) == JDict(<<[k |-> "daily", v |-> JList(entries)]>>)

Elements(lens, defect) ==
    JDict(Opt(lens.wx >= 0, "Wx",
              Series([i \in 1..lens.wx |-> WxEntry(i, defect)]))
          \o Opt(lens.mx >= 0, "MaxT",
                 Series([i \in 1..lens.mx |-> MaxEntry(i, defect)]))
          \o Opt(lens.mn >= 0, "MinT",
                 Series([i \in 1..lens.mn |-> MinEntry(i, defect)])))

Containers == {"weatherElements", "weatherElement", "empty_then_weatherElement", "none"}

LocEntry(name, container, lens, defect) ==
    JDict(Opt(name # "", "locationName", JStr(name))
          \o Opt(container = "weatherElements", "weatherElements",
                 Elements(lens, defect))
          \o Opt(container = "empty_then_weatherElement", "weatherElements",
                 EmptyDict)
          \o Opt(container \in {"weatherElement", "empty_then_weatherElement"},
                 "weatherElement", Elements(lens, defect)))

Document(locs) ==
    JDict(<<[k |-> "cwaopendata",
             v |-> JDict(<<[k |-> "identifier", v |-> JStr("F-A0010-001")],
                           [k |-> "resources",
                            v |-> JDict(<<[k |-> "location", v |-> JList(locs)]>>)]>>)]>>)

Lens == (-1)..MaxDays
Shapes == [mx : Lens, mn : Lens, wx : Lens]
Full == [mx |-> MaxDays, mn |-> MaxDays, wx |-> MaxDays]

\* The location entries under study, and the entries put beside them.
Subjects ==
    {LocEntry(n, c, l, NoDefect) : n \in {"", "North"}, c \in Containers, l \in Shapes}
    \cup {LocEntry("North", "weatherElements", Full, d) : d \in Defects}
Neighbours ==
    {LocEntry("Central", "weatherElements", Full, NoDefect),
     LocEntry("Central", "weatherElements", Full,
              [kind |-> "max_not_numeric", day |-> 1])}

ExtractDocs ==
    {Document(<<s>>) : s \in Subjects}
    \cup {Document(<<s, n>>) : s \in Subjects, n \in Neighbours}
    \cup {Document(<<n, s>>) : s \in Subjects, n \in Neighbours}
    \cup Level2

-----------------------------------------------------------------------------
(* One run of the script that misses the cache: the fetch, the save, and   *)
(* the map tab drawn for the first available date.                         *)

ScriptRun(resp) ==
    LET out == fetch_and_save_weather(resp, [rows |-> forecasts,
                                             seq |-> sqlite_sequence])
        dates == available_dates(out.ret)
    IN  /\ response' = resp
        /\ db_before' = forecasts
        /\ api_data' = out.ret
        /\ reported' = out.error
        /\ forecasts' = out.db.rows
        /\ sqlite_sequence' = out.db.seq
        /\ selected_date' = IF out.ret # <<>> THEN dates[1] ELSE JNull
        /\ map_rows' = IF out.ret # <<>> THEN expand_map_rows(out.ret, dates[1])
                       ELSE <<>>
        /\ cycles' = cycles + 1
        /\ UNCHANGED <<persisted, findVars, iconVars, colorVars>>

InitExtract == IdleFind /\ IdleIcon /\ IdleColor /\ IdlePipe

ExtractOnce ==
    /\ cycles = 0
    /\ \E resp \in ExtractDocs \cup Failures : ScriptRun(resp)

NextExtract == ExtractOnce

SpecExtract == InitExtract /\ [][NextExtract]_vars

-----------------------------------------------------------------------------
(* What the claims say fetch_and_save_weather extracts, read off the       *)
(* document without the code: for each location entry, as many records as  *)
(* its shortest daily series has entries, the i-th from the i-th entry of  *)
(* each series, with the defaults of the data model (a temperature that is *)
(* missing or does not parse is 0).                                        *)

\* The location entries of a document: the value of its first "location" key.
Entries(doc) ==
    LET m == Matches(doc, "location")
    IN  IF m # <<>> /\ IsList(m[1]) THEN m[1].items ELSE <<>>

ClaimElements(loc) ==
    IF HasKey(loc, "weatherElements") /\ ~Falsy(Lookup(loc, "weatherElements"))
    THEN Lookup(loc, "weatherElements")
    ELSE IF HasKey(loc, "weatherElement") THEN Lookup(loc, "weatherElement")
    ELSE EmptyDict

\* The daily series of one element, empty when the element or the series is missing.
ClaimSeries(loc, name) ==
    LET e == ClaimElements(loc)
    IN  IF HasKey(e, name) /\ HasKey(Lookup(e, name), "daily")
        THEN Lookup(Lookup(e, name), "daily").items
        ELSE <<>>

ClaimCount(loc) ==
    Min3(Len(ClaimSeries(loc, "MaxT")), Len(ClaimSeries(loc, "MinT")),
         Len(ClaimSeries(loc, "Wx")))

ClaimLocRecords(loc) ==
    [i \in 1..ClaimCount(loc) |->
        [region |-> Get(loc, "locationName", JStr("Unknown")),
         forecast_date |-> Get(ClaimSeries(loc, "MaxT")[i], "dataDate", JStr("N/A")),
         min_temp |-> PyInt_default_zero(
                          Get(ClaimSeries(loc, "MinT")[i], "temperature", JInt(0))).val,
         max_temp |-> PyInt_default_zero(
                          Get(ClaimSeries(loc, "MaxT")[i], "temperature", JInt(0))).val,
         weather |-> Get(ClaimSeries(loc, "Wx")[i], "weather", JStr("N/A"))]]

RECURSIVE ClaimRecordsFrom(_, _)
ClaimRecordsFrom(locs, i) ==
    IF i > Len(locs) THEN <<>>
    ELSE ClaimLocRecords(locs[i]) \o ClaimRecordsFrom(locs, i + 1)

ClaimRecords(doc) == ClaimRecordsFrom(Entries(doc), 1)

\* A document of the feed's shape: its locations are a list of mappings whose
\* weather elements are mappings of daily lists of mappings.
IsMapping(x) == IsDict(x)
WellShaped(doc) ==
    /\ ~IsFailure(doc)
    /\ Matches(doc, "location") # <<>>
    /\ IsList(Matches(doc, "location")[1])
    /\ \A l \in 1..Len(Entries(doc)) :
          LET loc == Entries(doc)[l]
          IN  /\ IsMapping(loc)
              /\ IsMapping(ClaimElements(loc))
              /\ \A name \in {"MaxT", "MinT", "Wx"} :
                    HasKey(ClaimElements(loc), name) =>
                        LET e == Lookup(ClaimElements(loc), name)
                        IN  /\ IsMapping(e)
                            /\ HasKey(e, "daily") => IsList(Lookup(e, "daily"))
                            /\ HasKey(e, "daily") =>
                                  \A i \in 1..Len(Lookup(e, "daily").items) :
                                      IsMapping(Lookup(e, "daily").items[i])

\* Some day that is to be emitted has a temperature that is there and is no integer.
Unparsable(entry) ==
    HasKey(entry, "temperature") /\ PyInt(Lookup(entry, "temperature")).exc
HasUnparsable(doc) ==
    \E l \in 1..Len(Entries(doc)) : \E i \in 1..ClaimCount(Entries(doc)[l]) :
        \/ Unparsable(ClaimSeries(Entries(doc)[l], "MaxT")[i])
        \/ Unparsable(ClaimSeries(Entries(doc)[l], "MinT")[i])

\* Some location entry lacks its name, its weather elements under both
\* spellings, or one of its three series.
LacksSomething(loc) ==
    \/ ~HasKey(loc, "locationName")
    \/ ~HasKey(loc, "weatherElements") /\ ~HasKey(loc, "weatherElement")
    \/ \E name \in {"MaxT", "MinT", "Wx"} : ~HasKey(ClaimElements(loc), name)
HasMissing(doc) == \E l \in 1..Len(Entries(doc)) : LacksSomething(Entries(doc)[l])

Persisted(records) == save_to_db([rows |-> {}, seq |-> 0], records).rows

\* C3: when a daily entry's temperature is present but no integer, its record is
\* still emitted with 0 in that field and every other record of the document is
\* emitted and persisted as it would be otherwise.
C3_UnparsableTemperatureIsZero ==
    (cycles = 1 /\ WellShaped(response) /\ HasUnparsable(response)) =>
        /\ api_data = ClaimRecords(response)
        /\ forecasts = Persisted(ClaimRecords(response))

\* C4: each location entry gives as many records as the shortest of its three
\* daily series has entries, the i-th built from the i-th entry of each series;
\* a length mismatch is never an error.
C4_CountIsShortestSeries ==
    (cycles = 1 /\ WellShaped(response)) =>
        /\ ~reported
        /\ Len(api_data) = Len(ClaimRecords(response))
        /\ \A i \in 1..Len(api_data) : api_data[i] = ClaimRecords(response)[i]

\* C10: a location entry that lacks its name, its weather elements or a series
\* raises nothing and gives no records of its own beyond what its series allow,
\* and the records of the other entries of the document are still emitted.
C10_MissingFieldsNeverRaise ==
    (cycles = 1 /\ WellShaped(response) /\ HasMissing(response)) =>
        /\ ~reported
        /\ \A l \in 1..Len(Entries(response)) :
              \A i \in 1..ClaimCount(Entries(response)[l]) :
                  \E j \in 1..Len(api_data) :
                      api_data[j] = ClaimLocRecords(Entries(response)[l])[i]

\* What does hold of C3, C4 and C10 together: on a document none of whose
\* emitted days has an unparsable temperature, the records are the claims'.
Extract_AgreesWhenParsable ==
    (cycles = 1 /\ WellShaped(response) /\ ~HasUnparsable(response)) =>
        /\ ~reported
        /\ api_data = ClaimRecords(response)
        /\ forecasts = Persisted(ClaimRecords(response))

\* And what the code does otherwise: the whole refresh is given up.
Extract_UnparsableAbortsRefresh ==
    (cycles = 1 /\ WellShaped(response) /\ HasUnparsable(response)) =>
        reported /\ api_data = <<>> /\ forecasts = db_before

\* C5: a parsed document with no "location" key at any depth gives an empty
\* result by the early return, and nothing is persisted.
C5_NoLocationKeyGivesEmpty ==
    (cycles = 1 /\ ~IsFailure(response) /\ Matches(response, "location") = <<>>) =>
        /\ api_data = <<>>
        /\ ~reported
        /\ forecasts = {} /\ sqlite_sequence = 0

\* A nested mapping without the key has been fetched.
C5_Witness ==
    /\ cycles = 1
    /\ IsDict(response) /\ response.kv # <<>> /\ IsDict(response.kv[1].v)
    /\ Matches(response, "location") = <<>>
    /\ api_data = <<>>

-----------------------------------------------------------------------------
(* get_db_data: SELECT * FROM forecasts ORDER BY location, forecast_date.  *)

\* The texts of this model in the order SQLite's BINARY collation gives the
\* source's strings: digits, then Latin capitals, then the region names by
\* their first character's code point.
Collation == <<"2024-01-01", "2024-01-02", "2024-01-03", "2024-01-04", "N/A",
               "Unknown", "Central", "North", "South", "NorthEast", "SouthEast",
               "East", "Penghu", "Kinmen", "Matsu">>

\* NULL sorts before every text.
Rank(x) == IF IsNone(x) THEN 0
           ELSE CHOOSE i \in 1..Len(Collation) : Collation[i] = x.s

Before(a, b) ==
    \/ Rank(a.location) < Rank(b.location)
    \/ /\ Rank(a.location) = Rank(b.location)
       /\ \/ Rank(a.forecast_date) < Rank(b.forecast_date)
          \/ Rank(a.forecast_date) = Rank(b.forecast_date) /\ a.id < b.id

RECURSIVE get_db_data(_)
get_db_data(rows) ==
    IF rows = {} THEN <<>>
    ELSE LET first == CHOOSE r \in rows : \A o \in rows \ {r} : Before(r, o)
         IN  <<first>> \o get_db_data(rows \ {first})

-----------------------------------------------------------------------------
(* The program: script runs that miss the cache (Refresh) and reruns on    *)
(* the cached result in which another date is chosen on the map tab.       *)

MaxCycles == 3

North == LocEntry("North", "weatherElements", Full, NoDefect)
Central == LocEntry("Central", "weatherElements", Full, NoDefect)

FeedDocs ==
    {Document(<<North, Central>>),
     Document(<<LocEntry("North", "weatherElements", Full,
                         [kind |-> "max_is_int", day |-> 1])>>),
     Document(<<LocEntry("North", "weatherElement",
                         [mx |-> MaxDays, mn |-> 1, wx |-> MaxDays], NoDefect)>>),
     Document(<<LocEntry("", "weatherElements", Full,
                         [kind |-> "date_absent", day |-> 1])>>),
     Document(<<North, LocEntry("North", "weatherElements", Full,
                                [kind |-> "max_is_int", day |-> MaxDays])>>),
     Document(<<Central, LocEntry("North", "weatherElements", Full,
                                  [kind |-> "max_not_numeric", day |-> 1])>>),
     JDict(<<[k |-> "other", v |-> JInt(1)]>>)}

Init == IdleFind /\ IdleIcon /\ IdleColor /\ IdlePipe

Refresh ==
    /\ cycles < MaxCycles
    /\ \E resp \in FeedDocs \cup Failures : ScriptRun(resp)

\* st.selectbox on the map tab: a rerun on the cached api_data (lines 239-263)
SelectDate ==
    /\ api_data # <<>>
    /\ \E d \in 1..Len(available_dates(api_data)) :
          /\ available_dates(api_data)[d] # selected_date
          /\ selected_date' = available_dates(api_data)[d]
          /\ map_rows' = expand_map_rows(api_data, available_dates(api_data)[d])
    /\ UNCHANGED <<forecasts, sqlite_sequence, persisted, response, api_data,
                   reported, db_before, cycles, findVars, iconVars, colorVars>>

Next == Refresh \/ SelectDate

Spec == Init /\ [][Next]_vars

\* C2: a refresh whose fetch or JSON parse fails reports the error, returns the
\* empty list and leaves the forecasts table exactly as it found it.
C2_FailedFetchPersistsNothing ==
    (cycles >= 1 /\ IsFailure(response)) =>
        /\ reported
        /\ api_data = <<>>
        /\ forecasts = db_before

\* A fetch has failed over a table that held rows.
C2_Witness ==
    /\ IsFailure(response) /\ response.kind = "body_not_json"
    /\ db_before # {}
    /\ forecasts = db_before

-----------------------------------------------------------------------------
(* The locality expansion on its own, over bounded record sets.            *)

MaxRecords == 3

MapRecords ==
    [region : {JStr("North"), JStr("East"), JStr("Unknown")},
     forecast_date : {JStr(DateNames[1]), JStr(DateNames[2])},
     min_temp : {15},
     max_temp : {19, 31},
     weather : {JStr("sunny")}]

\* The state a script run leaves behind when the fetch returned api_data.
InitMap ==
    /\ api_data \in SeqsUpTo(MapRecords, MaxRecords) \ {<<>>}
    /\ selected_date = available_dates(api_data)[1]
    /\ map_rows = expand_map_rows(api_data, selected_date)
    /\ forecasts = Persisted(api_data)
    /\ sqlite_sequence = Len(api_data)
    /\ persisted = <<>> /\ response = Pending /\ reported = FALSE
    /\ db_before = {} /\ cycles = 1
    /\ IdleFind /\ IdleIcon /\ IdleColor

NextMap == SelectDate

SpecMap == InitMap /\ [][NextMap]_vars

\* The table entries whose region has a record for the date, in table order.
Served(api, date) ==
    SelectSeq(CITY_MAPPING,
              LAMBDA m : \E i \in 1..Len(api) :
                  api[i].region = JStr(m.region) /\ api[i].forecast_date = date)

\* The first record of the region for the date.
FirstRecord(api, region, date) ==
    api[CHOOSE i \in 1..Len(api) :
            /\ api[i].region = JStr(region) /\ api[i].forecast_date = date
            /\ \A j \in 1..(i - 1) :
                  ~(api[j].region = JStr(region) /\ api[j].forecast_date = date)]

\* C6: map_rows holds exactly one row for each CITY_MAPPING entry whose region
\* has a record for the selected date, built from the first such record, and
\* no other row, in table order; so it is never longer than the table and
\* names no locality twice.
C6_OneRowPerServedLocality ==
    LET served == Served(api_data, selected_date)
    IN  /\ Len(map_rows) = Len(served)
        /\ Len(map_rows) <= Len(CITY_MAPPING)
        /\ \A i, j \in 1..Len(map_rows) :
              i # j => map_rows[i].display_name # map_rows[j].display_name
        /\ \A i \in 1..Len(map_rows) :
              LET rec == FirstRecord(api_data, served[i].region, selected_date)
              IN  /\ map_rows[i].display_name = served[i].city
                  /\ map_rows[i].lat = served[i].lat
                  /\ map_rows[i].lon = served[i].lon
                  /\ map_rows[i].region = rec.region
                  /\ map_rows[i].forecast_date = rec.forecast_date
                  /\ map_rows[i].min_temp = rec.min_temp
                  /\ map_rows[i].max_temp = rec.max_temp
                  /\ map_rows[i].weather = rec.weather

\* The second date has been chosen on the map tab; for it one region of the
\* table has two records that differ and a region of the records is in no
\* table entry.
C6_Witness ==
    /\ map_rows # <<>>
    /\ Len(map_rows) < Len(CITY_MAPPING)
    /\ Len(available_dates(api_data)) = 2
    /\ selected_date = available_dates(api_data)[2]
    /\ \E i, j \in 1..Len(api_data) :
          /\ i < j
          /\ api_data[i].region = api_data[j].region
          /\ api_data[i].forecast_date = selected_date
          /\ api_data[j].forecast_date = selected_date
          /\ api_data[i].max_temp # api_data[j].max_temp
          /\ \E k \in 1..Len(map_rows) : map_rows[k].region = api_data[i].region
    /\ \E i \in 1..Len(api_data) : api_data[i].region = JStr("Unknown")

-----------------------------------------------------------------------------
(* save_to_db and get_db_data on their own, from an empty table.           *)

MaxBatch == 2
MaxInserts == 4

Items ==
    [region : {JStr("North"), JStr("Central")},
     forecast_date : {JStr(DateNames[1]), JStr(DateNames[2])},
     min_temp : {18},
     max_temp : {25, 31},
     weather : {JStr("sunny")}]

InitDb == IdleFind /\ IdleIcon /\ IdleColor /\ IdlePipe

SaveToDb ==
    \E data_list \in SeqsUpTo(Items, MaxBatch) :
        /\ Len(persisted) + Len(data_list) <= MaxInserts
        /\ LET db == save_to_db([rows |-> forecasts, seq |-> sqlite_sequence],
                                data_list)
           IN  /\ forecasts' = db.rows
               /\ sqlite_sequence' = db.seq
        /\ persisted' = persisted \o data_list
        /\ UNCHANGED <<response, api_data, reported, db_before, selected_date,
                       map_rows, cycles, findVars, iconVars, colorVars>>

NextDb == SaveToDb

SpecDb == InitDb /\ [][NextDb]_vars

PairOf(item) == <<item.region, item.forecast_date>>
Pairs(items) == {PairOf(items[i]) : i \in 1..Len(items)}

\* The item persisted last for a pair.
LastFor(items, pair) ==
    items[CHOOSE i \in 1..Len(items) :
              /\ PairOf(items[i]) = pair
              /\ \A j \in (i + 1)..Len(items) : PairOf(items[j]) # pair]

\* A row as the item it stores, without id.
ItemOf(row) == [region |-> row.location, forecast_date |-> row.forecast_date,
                min_temp |-> row.min_temp, max_temp |-> row.max_temp,
                weather |-> row.weather_desc]

\* C1: get_db_data returns exactly one row for each (location, forecast_date)
\* pair ever persisted, carrying the temperatures and description persisted
\* last for the pair; so when all persisted pairs differ, the rows read back
\* are the items persisted.
C1_OneRowPerPairLatestWins ==
    LET df == get_db_data(forecasts)
    IN  /\ Len(df) = Cardinality(Pairs(persisted))
        /\ \A pair \in Pairs(persisted) :
              \E i \in 1..Len(df) :
                  /\ ItemOf(df[i]) = LastFor(persisted, pair)
                  /\ \A j \in 1..Len(df) :
                        <<df[j].location, df[j].forecast_date>> = pair => j = i
        /\ Cardinality(Pairs(persisted)) = Len(persisted) =>
              {ItemOf(df[i]) : i \in 1..Len(df)}
                  = {persisted[i] : i \in 1..Len(persisted)}

\* A pair has been persisted twice with different temperatures, in two calls.
C1_Witness ==
    /\ Len(persisted) = MaxBatch + 1
    /\ PairOf(persisted[1]) = PairOf(persisted[Len(persisted)])
    /\ persisted[1].max_temp # persisted[Len(persisted)].max_temp
    /\ Cardinality(forecasts) = Cardinality(Pairs(persisted))

=============================================================================
